---- MODULE Spec2Model ----
(***************************************************************************)
(* The meta store of services/meta (store.go): the versioned Document, its *)
(* reader/writer lock, the data-changed and closing channels, the open /   *)
(* close lifecycle, waitForLeader and joinCluster; and the Service of      *)
(* service.go that owns the store: Open and Close.                         *)
(*                                                                         *)
(* Go channels are numbered in the order make(chan) creates them; chClosed *)
(* is the set of channels close() was applied to.  *Data values live in a  *)
(* heap of addresses so that a pointer and a Clone() are different things. *)
(* raftState, the FSM commit callback, Data.Clone and the join Client are  *)
(* not part of store.go; they follow the specification's sections 4.3, 4.4 *)
(* and 6.                                                                  *)
(***************************************************************************)
EXTENDS Naturals, Sequences, FiniteSets

\* ------------------------------------------------------------------ bounds
MaxLog == 2        \* commands the consensus module commits
MaxClose == 2      \* close calls
MaxPeers == 2      \* seed peers in config.JoinPeers

Commands == {"A", "B"}          \* opaque serialized commands
Free == "free"                  \* s.mu held by nobody
Self == "self"                  \* this node's raft address
Other == "other"                \* another node's raft address
NoLeader == ""                  \* raft.Leader() when no leader is known
Openers == {"o1", "o2"}        \* callers of open
ExtWaiters == {"w1"}            \* callers of waitForLeader other than open
WaitIds == Openers \cup ExtWaiters
AfterCallers == {"a1", "a2"}    \* callers of afterIndex
Readers == {"r1", "r2"}         \* callers of snapshot
AfterArgs == 0 .. (MaxLog + 1)  \* the index argument of afterIndex
Timeouts == {0, 1}              \* waitForLeader's timeout: 0, or a non-zero duration
AccCallers == {"c1"}            \* callers of leader and isLeader

VARIABLES
  s,          \* the store struct: data, closing, dataChanged, opened, raftState
  mu,         \* s.mu: Free, or held exclusively by "fsm" or by "open"
  heap,       \* address -> Data value
  nchan,      \* channels made so far
  chClosed,   \* channels that were closed
  panicked,   \* "" or the run-time panic that ended the process
  raftLeader, \* the consensus module's current leader address
  raftLog,    \* the commands the consensus module committed, in commit order
  fsm,        \* the commit callback: its position and the entries it applied
  after,      \* afterIndex calls: argument, handle returned, Index at the call
  snaps,      \* snapshot calls: address returned, commits applied at the call
  closeN,     \* close calls made
  lnBound,    \* raftln.Addr() # nil
  join,       \* config.JoinPeers, which seed peers answer, the cluster's members
  opn,        \* open calls: position, initializePeers, error returned, and
              \* whether an earlier open had succeeded when the call began
  wfl,        \* waitForLeader calls: position, timeout, timer, result, the
              \* leader its last poll read, whether a leader was known at
              \* some moment of the wait before its timer fired
  appl,       \* the error the last apply call returned ("" for nil)
  acc,        \* leader() and isLeader() calls: position and value returned
  svc         \* the Service: its store and HTTP listener fields, Open and Close

vars == <<s, mu, heap, nchan, chClosed, panicked, raftLeader, raftLog, fsm,
          after, snaps, closeN, lnBound, join, opn, wfl, appl, acc, svc>>

\* ------------------------------------------------------------ data and heap
NilRaft == [open |-> FALSE, peers |-> <<>>]

\* Data.Clone: a deep copy, an independent value.
Clone(d) == [Index |-> d.Index, Cmds |-> d.Cmds]

newStore_IndexZero ==
  [ data |-> [Index |-> 0, Cmds |-> <<>>],
    closing |-> 1, dataChanged |-> 2, opened |-> FALSE, raftState |-> NilRaft ]

\* newStore: Data{Index: 1}, two fresh channels, not opened, no raftState.
newStore ==
  [ data |-> [Index |-> 1, Cmds |-> <<>>],
    closing |-> 1, dataChanged |-> 2, opened |-> FALSE, raftState |-> NilRaft ]

\* s.data.Index as index() returns it.
index == heap[s.data].Index

\* The run-time panic of a method call or field read through a nil pointer.
NilDeref == "nil pointer dereference"

\* s.raftState.raft.Leader(): the module's leader address; through a nil
\* raftState the read of its raft field panics.
raftLeaderOf(rs) == IF rs = NilRaft THEN NilDeref ELSE raftLeader

leader_NoNilCheck == raftLeaderOf(s.raftState)

\* leader(): "" without a raftState, else raft.Leader().
leader == IF s.raftState = NilRaft THEN NoLeader ELSE raftLeaderOf(s.raftState)

\* isLeader(): false without a raftState, else raft.State() == raft.Leader.
isLeader == IF s.raftState = NilRaft THEN FALSE ELSE raftLeader = Self

Running == panicked = ""

\* A leader()/isLeader() call not made yet.
\* nil and rl record what the call found: no raftState, the module's leader.
NoCall == [st |-> "idle", fn |-> "", ldr |-> NoLeader, isl |-> FALSE,
           nil |-> FALSE, rl |-> NoLeader]

\* NewService: no store, no HTTP listener; Open and Close not called yet.
NewService == [store |-> FALSE, ln |-> FALSE, pc |-> "idle", err |-> "",
               cl |-> "idle", clerr |-> ""]

\* ------------------------------------------------------------------- Init
\* A member of the cluster: its HTTP address and its consensus-transport address.
Node(h, t) == [Host |-> h, TCPHost |-> t]
SelfNode == Node("hself", Self)
SeedPeers == <<"p1", "p2", "p3", "p4">>

\* config.JoinPeers (a prefix of SeedPeers), the seed peers that answer, and
\* the membership of the cluster they belong to.
NoJoin == [peers |-> <<>>, up |-> {}, nodes |-> <<>>]

Memberships == {<<Node("h1", "t1"), Node("h2", "t2")>>,
                <<Node("h2", "t2"), Node("h1", "t1")>>}

Configs ==
  {NoJoin} \cup
  UNION {{[peers |-> SubSeq(SeedPeers, 1, n), up |-> u, nodes |-> m] :
            u \in SUBSET {SeedPeers[k] : k \in 1 .. n}, m \in Memberships} :
         n \in 1 .. MaxPeers}

InitCfg(cfg) ==
  /\ join = cfg
  /\ s = [ data |-> 1, closing |-> newStore.closing,
           dataChanged |-> newStore.dataChanged,
           opened |-> newStore.opened, raftState |-> newStore.raftState ]
  /\ heap = <<newStore.data>>
  /\ nchan = 2
  /\ chClosed = {}
  /\ mu = Free
  /\ panicked = ""
  /\ raftLeader = NoLeader
  /\ raftLog = <<>>
  /\ fsm = [pc |-> "idle", applied |-> 0]
  /\ after = [c \in AfterCallers |-> [st |-> "idle", i |-> 0, ch |-> 0, at |-> 0]]
  /\ snaps = [r \in Readers |-> [st |-> "idle", ref |-> 0, n |-> 0]]
  /\ closeN = 0
  /\ lnBound = FALSE
  /\ opn = [o \in Openers |->
             [pc |-> "idle", peers |-> <<>>, err |-> "", was |-> FALSE]]
  /\ wfl = [w \in WaitIds |->
             [st |-> "idle", timeout |-> 0, timer |-> "armed", res |-> "",
              seen |-> NoLeader, known |-> FALSE]]
  /\ appl = ""
  /\ acc = [c \in AccCallers |-> NoCall]
  /\ svc = NewService

\* The store after newStore, for a configuration without seed peers.
Init == InitCfg(NoJoin)

\* ------------------------------------------------- channels and the lock
\* close(ch): closing a closed channel panics.
CloseChan(ch) ==
  IF ch \in chClosed
    THEN /\ panicked' = "close of closed channel"
         /\ UNCHANGED chClosed
    ELSE /\ chClosed' = chClosed \cup {ch}
         /\ UNCHANGED panicked

snapshotRLock_None == TRUE

\* snapshot's s.mu.RLock(): granted while no writer holds s.mu.
snapshotRLock == mu = Free

afterIndexRLock_None == TRUE

\* afterIndex's s.mu.RLock().
afterIndexRLock == mu = Free

\* leader's s.mu.RLock().
leaderRLock == mu = Free

\* isLeader's s.mu.RLock().
isLeaderRLock == mu = Free

\* ------------------------------------------------- leadership accessors
\* leader() called by a collaborator: the value it returns, or the panic of
\* a read through a nil raftState.
leaderCall(c) ==
  /\ Running
  /\ acc[c].st = "idle"
  /\ leaderRLock
  /\ IF leader = NilDeref
       THEN /\ panicked' = NilDeref
            /\ UNCHANGED acc
       ELSE /\ acc' = [acc EXCEPT ![c] =
                         [st |-> "got", fn |-> "leader", ldr |-> leader,
                          isl |-> FALSE, nil |-> s.raftState = NilRaft,
                          rl |-> raftLeader]]
            /\ UNCHANGED panicked
  /\ UNCHANGED <<s, mu, heap, nchan, chClosed, raftLeader, raftLog, fsm, after,
                 snaps, closeN, lnBound, join, opn, wfl, appl, svc>>

\* isLeader() called by a collaborator.
isLeaderCall(c) ==
  /\ Running
  /\ acc[c].st = "idle"
  /\ isLeaderRLock
  /\ acc' = [acc EXCEPT ![c] =
               [st |-> "got", fn |-> "isLeader", ldr |-> NoLeader,
                isl |-> isLeader, nil |-> s.raftState = NilRaft,
                rl |-> raftLeader]]
  /\ UNCHANGED <<s, mu, heap, nchan, chClosed, panicked, raftLeader, raftLog,
                 fsm, after, snaps, closeN, lnBound, join, opn, wfl, appl, svc>>

\* ------------------------------------------------------- apply and commit
\* raftState.apply as the specification's 4.4 has it: the leader replicates
\* and commits the command, any other node returns the module's error.
raftApplyOk == raftLeader = Self

\* The error of the consensus module on a node that is not the leader.
ErrNotLeader == "node is not the leader"

raftApplyErr_Always == ErrNotLeader

\* raftState.apply's result: nil when the command was committed.
raftApplyErr == IF raftApplyOk THEN "" ELSE ErrNotLeader

\* store.apply: s.raftState.apply(b), with no check that raftState is set.
apply(b) ==
  /\ Running
  /\ Len(raftLog) < MaxLog
  /\ IF s.raftState = NilRaft
       THEN /\ panicked' = NilDeref
            /\ UNCHANGED <<raftLog, appl>>
       ELSE /\ raftLog' = IF raftApplyOk THEN Append(raftLog, b) ELSE raftLog
            /\ appl' = raftApplyErr
            /\ UNCHANGED panicked
  /\ UNCHANGED <<s, mu, heap, nchan, chClosed, raftLeader, fsm, after, snaps,
                 closeN, lnBound, join, opn, wfl>>
  /\ UNCHANGED <<acc, svc>>

\* A command another leader committed reaches this node's log.
RaftReplicate(b) ==
  /\ Running
  /\ s.raftState # NilRaft
  /\ raftLeader = Other
  /\ Len(raftLog) < MaxLog
  /\ raftLog' = Append(raftLog, b)
  /\ UNCHANGED <<s, mu, heap, nchan, chClosed, panicked, raftLeader, fsm, after,
                 snaps, closeN, lnBound, join, opn, wfl>>
  /\ UNCHANGED <<appl, acc, svc>>

\* The consensus module's leader changes (election, loss of leadership).
RaftElect(l) ==
  /\ Running
  /\ s.raftState # NilRaft
  /\ l # raftLeader
  /\ raftLeader' = l
  /\ wfl' = [w \in WaitIds |->
               IF wfl[w].st = "run" /\ wfl[w].timer = "armed" /\ l # NoLeader
                 THEN [wfl[w] EXCEPT !.known = TRUE] ELSE wfl[w]]
  /\ UNCHANGED <<s, mu, heap, nchan, chClosed, panicked, raftLog, fsm, after,
                 snaps, closeN, lnBound, join, opn>>
  /\ UNCHANGED <<appl, acc, svc>>

\* The commit callback, for the next committed command: takes s.mu
\* exclusively and mutates the Document.
FsmMutate ==
  /\ Running
  /\ fsm.pc = "idle"
  /\ fsm.applied < Len(raftLog)
  /\ mu = Free
  /\ mu' = "fsm"
  /\ heap' = [heap EXCEPT ![s.data].Cmds = Append(@, raftLog[fsm.applied + 1])]
  /\ fsm' = [fsm EXCEPT !.pc = "mutated"]
  /\ UNCHANGED <<s, nchan, chClosed, panicked, raftLeader, raftLog, after, snaps,
                 closeN, lnBound, join, opn, wfl>>
  /\ UNCHANGED <<appl, acc, svc>>

\* ... increments Index by exactly one ...
FsmIndex ==
  /\ Running
  /\ fsm.pc = "mutated"
  /\ heap' = [heap EXCEPT ![s.data].Index = @ + 1]
  /\ fsm' = [fsm EXCEPT !.pc = "indexed"]
  /\ UNCHANGED <<s, mu, nchan, chClosed, panicked, raftLeader, raftLog, after,
                 snaps, closeN, lnBound, join, opn, wfl>>
  /\ UNCHANGED <<appl, acc, svc>>

\* ... signals the data-changed handle, installs a fresh one and unlocks.
FsmNotify ==
  /\ Running
  /\ fsm.pc = "indexed"
  /\ CloseChan(s.dataChanged)
  /\ nchan' = nchan + 1
  /\ s' = [s EXCEPT !.dataChanged = nchan + 1]
  /\ mu' = Free
  /\ fsm' = [pc |-> "idle", applied |-> fsm.applied + 1]
  /\ UNCHANGED <<heap, raftLeader, raftLog, after, snaps, closeN, lnBound, join,
                 opn, wfl>>
  /\ UNCHANGED <<appl, acc, svc>>

\* ------------------------------------------------------------- read path
\* snapshot: s.data.Clone() under the read lock; the caller gets the address
\* of the copy.
snapshot(r) ==
  /\ Running
  /\ snaps[r].st = "idle"
  /\ snapshotRLock
  /\ heap' = Append(heap, Clone(heap[s.data]))
  /\ snaps' = [snaps EXCEPT ![r] = [st |-> "got", ref |-> Len(heap) + 1, n |-> fsm.applied]]
  /\ UNCHANGED <<s, mu, nchan, chClosed, panicked, raftLeader, raftLog, fsm,
                 after, closeN, lnBound, join, opn, wfl>>
  /\ UNCHANGED <<appl, acc, svc>>

afterIndexStale_Leq(i, idx) == i <= idx

afterIndexStale_Always(i, idx) == TRUE

\* afterIndex's test: index < s.data.Index.
afterIndexStale(i, idx) == i < idx

\* afterIndex(i): a new, closed channel for a stale caller, else s.dataChanged.
afterIndex(c, i) ==
  /\ Running
  /\ after[c].st = "idle"
  /\ afterIndexRLock
  /\ IF afterIndexStale(i, index)
       THEN /\ nchan' = nchan + 1
            /\ chClosed' = chClosed \cup {nchan + 1}
            /\ after' = [after EXCEPT ![c] =
                           [st |-> "got", i |-> i, ch |-> nchan + 1, at |-> index]]
       ELSE /\ after' = [after EXCEPT ![c] =
                           [st |-> "got", i |-> i, ch |-> s.dataChanged, at |-> index]]
            /\ UNCHANGED <<nchan, chClosed>>
  /\ UNCHANGED <<s, mu, heap, panicked, raftLeader, raftLog, fsm, snaps, closeN,
                 lnBound, join, opn, wfl>>
  /\ UNCHANGED <<appl, acc, svc>>

\* -------------------------------------------------------- waitForLeader
\* A wait made by open (its last line) returns open's result.
\* time.NewTimer(timeout), time.NewTicker(100ms); the wait begins.
StartWait(w, t) ==
  wfl' = [wfl EXCEPT ![w] = [st |-> "run", timeout |-> t, timer |-> "armed",
                             res |-> "", seen |-> NoLeader,
                             known |-> leader # NoLeader]]

\* waitForLeader(t) called by a collaborator of the store.
wflCall(w, t) ==
  /\ Running
  /\ wfl[w].st = "idle"
  /\ StartWait(w, t)
  /\ UNCHANGED <<s, mu, heap, nchan, chClosed, panicked, raftLeader, raftLog, fsm,
                 after, snaps, closeN, lnBound, join, opn>>
  /\ UNCHANGED <<appl, acc, svc>>

\* The timer's duration elapses (at once for a zero timeout): timer.C is ready.
wflTimerFire(w) ==
  /\ Running
  /\ wfl[w].st = "run"
  /\ wfl[w].timer = "armed"
  /\ wfl' = [wfl EXCEPT ![w].timer = "fired"]
  /\ UNCHANGED <<s, mu, heap, nchan, chClosed, panicked, raftLeader, raftLog, fsm,
                 after, snaps, closeN, lnBound, join, opn>>
  /\ UNCHANGED <<appl, acc, svc>>

wflClosingReady_Never == FALSE

\* case <-s.closing: ready once the channel is closed.
wflClosingReady == s.closing \in chClosed

wflClosing(w) ==
  /\ Running
  /\ wfl[w].st = "run"
  /\ wflClosingReady
  /\ wfl' = [wfl EXCEPT ![w].st = "done", ![w].res = "closing"]
  /\ IF w \in Openers
       THEN opn' = [opn EXCEPT ![w].pc = "done", ![w].err = "closing"]
       ELSE UNCHANGED opn
  /\ UNCHANGED <<s, mu, heap, nchan, chClosed, panicked, raftLeader, raftLog, fsm,
                 after, snaps, closeN, lnBound, join>>
  /\ UNCHANGED <<appl, acc, svc>>

wflExpired_Always(t) == TRUE

\* case <-timer.C: if timeout != 0.
wflExpired(t) == t # 0

wflTimer(w) ==
  /\ Running
  /\ wfl[w].st = "run"
  /\ wfl[w].timer = "fired"
  /\ IF wflExpired(wfl[w].timeout)
       THEN /\ wfl' = [wfl EXCEPT ![w].timer = "drained", ![w].st = "done",
                                  ![w].res = "timeout"]
            /\ IF w \in Openers
                 THEN opn' = [opn EXCEPT ![w].pc = "done", ![w].err = "timeout"]
                 ELSE UNCHANGED opn
       ELSE /\ wfl' = [wfl EXCEPT ![w].timer = "drained"]
            /\ UNCHANGED opn
  /\ UNCHANGED <<s, mu, heap, nchan, chClosed, panicked, raftLeader, raftLog, fsm,
                 after, snaps, closeN, lnBound, join>>
  /\ UNCHANGED <<appl, acc, svc>>

wflFound_Always(l) == TRUE

\* case <-ticker.C: if s.leader() != "".
wflFound(l) == l # NoLeader

wflTick(w) ==
  /\ Running
  /\ wfl[w].st = "run"
  /\ leaderRLock
  /\ IF wflFound(leader)
       THEN /\ wfl' = [wfl EXCEPT ![w].st = "done", ![w].res = "ok",
                                  ![w].seen = leader]
            /\ IF w \in Openers
                 THEN opn' = [opn EXCEPT ![w].pc = "done", ![w].err = ""]
                 ELSE UNCHANGED opn
       ELSE UNCHANGED <<wfl, opn>>
  /\ UNCHANGED <<s, mu, heap, nchan, chClosed, panicked, raftLeader, raftLog, fsm,
                 after, snaps, closeN, lnBound, join>>
  /\ UNCHANGED <<appl, acc, svc>>

\* ----------------------------------------------------------------- close
\* close: close(s.closing) under the exclusive lock.
close ==
  /\ Running
  /\ closeN < MaxClose
  /\ mu = Free
  /\ CloseChan(s.closing)
  /\ closeN' = closeN + 1
  /\ UNCHANGED <<s, mu, heap, nchan, raftLeader, raftLog, fsm, after, snaps,
                 lnBound, join, opn, wfl>>
  /\ UNCHANGED <<appl, acc, svc>>

\* ------------------------------------------------------------------ open
\* The collaborator that starts the consensus transport binds the listener.
ListenerBind ==
  /\ Running
  /\ ~lnBound
  /\ lnBound' = TRUE
  /\ UNCHANGED <<s, mu, heap, nchan, chClosed, panicked, raftLeader, raftLog, fsm,
                 after, snaps, closeN, join, opn, wfl>>
  /\ UNCHANGED <<appl, acc, svc>>

\* open is called; was records whether an earlier open has already succeeded.
openCall(o) ==
  /\ Running
  /\ opn[o].pc = "idle"
  /\ opn' = [opn EXCEPT ![o].pc = "listen",
                        ![o].was = \E q \in Openers :
                                     opn[q].pc = "done" /\ opn[q].err = ""]
  /\ UNCHANGED <<s, mu, heap, nchan, chClosed, panicked, raftLeader, raftLog, fsm,
                 after, snaps, closeN, lnBound, join, wfl>>
  /\ UNCHANGED <<appl, acc, svc>>

hasJoinPeers_Never == FALSE

\* if len(s.config.JoinPeers) > 0
hasJoinPeers == Len(join.peers) > 0

\* open's wait for raftln.Addr(): leaves the loop when the address is set,
\* fails when raftListenerStartupTimeout has passed without it.
openListener(o) ==
  /\ Running
  /\ opn[o].pc = "listen"
  /\ IF lnBound
       THEN opn' = [opn EXCEPT ![o].pc =
                      IF hasJoinPeers THEN "register" ELSE "lock"]
       ELSE opn' = [opn EXCEPT ![o].pc = "done",
                      ![o].err = "unable to open without raft listener running"]
  /\ UNCHANGED <<s, mu, heap, nchan, chClosed, panicked, raftLeader, raftLog, fsm,
                 after, snaps, closeN, lnBound, join, wfl>>
  /\ UNCHANGED <<appl, acc, svc>>

\* Client.CreateMetaNode: registers this node with the seed peer it contacts,
\* an error when that peer does not answer.
CreateMetaNode(p) ==
  IF join.peers[p] \in join.up
    THEN [err |-> "",
          nodes |-> IF \E k \in DOMAIN join.nodes : join.nodes[k] = SelfNode
                      THEN join.nodes ELSE Append(join.nodes, SelfNode)]
    ELSE [err |-> "unreachable", nodes |-> join.nodes]

\* joinCluster, first half: c.CreateMetaNode; its error is returned as it is.
joinRegister(o) ==
  /\ Running
  /\ opn[o].pc = "register"
  /\ \E p \in DOMAIN join.peers :
       LET r == CreateMetaNode(p) IN
         /\ join' = [join EXCEPT !.nodes = r.nodes]
         /\ opn' = IF r.err = ""
                     THEN [opn EXCEPT ![o].pc = "snapshot"]
                     ELSE [opn EXCEPT ![o].pc = "done", ![o].err = r.err]
  /\ UNCHANGED <<s, mu, heap, nchan, chClosed, panicked, raftLeader, raftLog, fsm,
                 after, snaps, closeN, lnBound, wfl>>
  /\ UNCHANGED <<appl, acc, svc>>

RECURSIVE raftPeers(_)
\* for _, n := range data.MetaNodes { raftPeers = append(raftPeers, n.TCPHost) }
raftPeers(nodes) ==
  IF nodes = <<>> THEN <<>>
  ELSE <<Head(nodes).TCPHost>> \o raftPeers(Tail(nodes))

\* joinCluster, second half: c.retryUntilSnapshot returns once a seed peer
\* answers with the membership; the peers' TCPHost are the result.
joinSnapshot(o) ==
  /\ Running
  /\ opn[o].pc = "snapshot"
  /\ \E p \in DOMAIN join.peers : join.peers[p] \in join.up
  /\ opn' = [opn EXCEPT ![o].pc = "lock", ![o].peers = raftPeers(join.nodes)]
  /\ UNCHANGED <<s, mu, heap, nchan, chClosed, panicked, raftLeader, raftLog, fsm,
                 after, snaps, closeN, lnBound, join, wfl>>
  /\ UNCHANGED <<appl, acc, svc>>

\* A seed peer stops answering.
PeerDown(p) ==
  /\ Running
  /\ p \in join.up
  /\ join' = [join EXCEPT !.up = @ \ {p}]
  /\ UNCHANGED <<s, mu, heap, nchan, chClosed, panicked, raftLeader, raftLog, fsm,
                 after, snaps, closeN, lnBound, opn, wfl, appl, acc, svc>>

openAlready_Never == FALSE

\* if s.opened { return ErrStoreOpen }
openAlready == s.opened

\* open's critical section begins: s.mu.Lock(), the s.opened check, s.opened = true.
openLock(o) ==
  /\ Running
  /\ opn[o].pc = "lock"
  /\ mu = Free
  /\ IF openAlready
       THEN /\ opn' = [opn EXCEPT ![o].pc = "done", ![o].err = "ErrStoreOpen"]
            /\ UNCHANGED <<s, mu>>
       ELSE /\ s' = [s EXCEPT !.opened = TRUE]
            /\ mu' = "open"
            /\ opn' = [opn EXCEPT ![o].pc = "crit"]
  /\ UNCHANGED <<heap, nchan, chClosed, panicked, raftLeader, raftLog, fsm, after,
                 snaps, closeN, lnBound, join, wfl>>
  /\ UNCHANGED <<appl, acc, svc>>

\* os.MkdirAll and openRaft, then the unlock; on success open goes on to
\* waitForLeader(0).
openCrit(o, outcome) ==
  /\ Running
  /\ opn[o].pc = "crit"
  /\ mu' = Free
  /\ IF outcome = "ok"
       THEN /\ s' = [s EXCEPT !.raftState = [open |-> TRUE, peers |-> opn[o].peers]]
            /\ opn' = [opn EXCEPT ![o].pc = "wait"]
            /\ StartWait(o, 0)
       ELSE /\ opn' = [opn EXCEPT ![o].pc = "done", ![o].err = outcome]
            /\ UNCHANGED <<s, wfl>>
  /\ UNCHANGED <<heap, nchan, chClosed, panicked, raftLeader, raftLog, fsm, after,
                 snaps, closeN, lnBound, join>>
  /\ UNCHANGED <<appl, acc, svc>>

\* --------------------------------------------------------------- Service
\* The open the Service makes on its store.
SvcOpener == "o1"

\* Service.Open, to its call of s.store.open: panics without a RaftListener,
\* else s.store = newStore(s.config) and the open begins.
ServiceOpen(rl) ==
  /\ Running
  /\ svc.pc = "idle"
  /\ IF rl
       THEN /\ svc' = [svc EXCEPT !.pc = "store", !.store = TRUE]
            /\ opn' = [opn EXCEPT ![SvcOpener].pc = "listen"]
            /\ UNCHANGED panicked
       ELSE /\ panicked' = "no raft listener set"
            /\ UNCHANGED <<svc, opn>>
  /\ UNCHANGED <<s, mu, heap, nchan, chClosed, raftLeader, raftLog, fsm, after,
                 snaps, closeN, lnBound, join, wfl, appl, acc>>

\* Service.Open, from the return of s.store.open: its error is returned;
\* else the handler is made and the HTTP listener opened (tls.Listen or
\* net.Listen, whose error is returned), s.ln set and serve started.
ServiceOpenListen(listenOk) ==
  /\ Running
  /\ svc.pc = "store"
  /\ opn[SvcOpener].pc = "done"
  /\ svc' = IF opn[SvcOpener].err # ""
              THEN [svc EXCEPT !.pc = "failed", !.err = opn[SvcOpener].err]
              ELSE IF listenOk
                     THEN [svc EXCEPT !.pc = "open", !.ln = TRUE]
                     ELSE [svc EXCEPT !.pc = "failed", !.err = "listen"]
  /\ UNCHANGED <<s, mu, heap, nchan, chClosed, panicked, raftLeader, raftLog, fsm,
                 after, snaps, closeN, lnBound, join, opn, wfl, appl, acc>>

\* Service.Close: with s.ln set, the result of s.ln.Close() is returned;
\* else s.store.close(), a call through nil when Open never made the store.
ServiceClose(lnCloseErr) ==
  /\ Running
  /\ svc.cl = "idle"
  /\ IF svc.ln
       THEN /\ svc' = [svc EXCEPT !.cl = "done", !.clerr = lnCloseErr]
            /\ UNCHANGED <<chClosed, panicked, closeN>>
       ELSE IF ~svc.store
              THEN /\ panicked' = NilDeref
                   /\ UNCHANGED <<svc, chClosed, closeN>>
              ELSE /\ mu = Free
                   /\ CloseChan(s.closing)
                   /\ closeN' = closeN + 1
                   /\ svc' = [svc EXCEPT !.cl = "done", !.clerr = ""]
  /\ UNCHANGED <<s, mu, heap, nchan, raftLeader, raftLog, fsm, after, snaps,
                 lnBound, join, opn, wfl, appl, acc>>

\* ------------------------------------------------------------------ Next
\* The lifecycle: concurrent opens, leader waits, close, apply.
Next ==
  \/ ListenerBind
  \/ \E o \in Openers : openCall(o)
  \/ \E o \in Openers : openListener(o)
  \/ \E o \in Openers : openLock(o)
  \/ \E o \in Openers, r \in {"ok", "mkdir all", "raft"} : openCrit(o, r)
  \/ \E w \in ExtWaiters, t \in Timeouts : wflCall(w, t)
  \/ \E w \in WaitIds : wflTimerFire(w)
  \/ \E w \in WaitIds : wflClosing(w)
  \/ \E w \in WaitIds : wflTimer(w)
  \/ \E w \in WaitIds : wflTick(w)
  \/ \E l \in {NoLeader, Self, Other} : RaftElect(l)
  \/ close

Spec == Init /\ [][Next]_vars

\* The store as one successful open leaves it (no seed peers, the listener
\* bound, the module attached, the leader wait returned on reading this node
\* as leader; a state Spec reaches), then read and written.
InitOpened ==
  /\ join = NoJoin
  /\ s = [ data |-> 1, closing |-> newStore.closing,
           dataChanged |-> newStore.dataChanged,
           opened |-> TRUE, raftState |-> [open |-> TRUE, peers |-> <<>>] ]
  /\ heap = <<newStore.data>>
  /\ nchan = 2
  /\ chClosed = {}
  /\ mu = Free
  /\ panicked = ""
  /\ raftLeader = Self
  /\ raftLog = <<>>
  /\ fsm = [pc |-> "idle", applied |-> 0]
  /\ after = [c \in AfterCallers |-> [st |-> "idle", i |-> 0, ch |-> 0, at |-> 0]]
  /\ snaps = [r \in Readers |-> [st |-> "idle", ref |-> 0, n |-> 0]]
  /\ closeN = 0
  /\ lnBound = TRUE
  /\ opn = [o \in Openers |->
             [pc |-> IF o = "o1" THEN "done" ELSE "idle", peers |-> <<>>, err |-> "",
              was |-> FALSE]]
  /\ wfl = [w \in WaitIds |->
             IF w = "o1"
               THEN [st |-> "done", timeout |-> 0, timer |-> "drained", res |-> "ok",
                     seen |-> raftLeader, known |-> TRUE]
               ELSE [st |-> "idle", timeout |-> 0, timer |-> "armed", res |-> "",
                     seen |-> NoLeader, known |-> FALSE]]
  /\ appl = ""
  /\ acc = [c \in AccCallers |-> NoCall]
  /\ svc = NewService

NextStore ==
  \/ \E l \in {NoLeader, Self, Other} : RaftElect(l)
  \/ \E b \in Commands : apply(b)
  \/ \E b \in Commands : RaftReplicate(b)
  \/ FsmMutate
  \/ FsmIndex
  \/ FsmNotify
  \/ \E r \in Readers : snapshot(r)
  \/ \E c \in AfterCallers, i \in AfterArgs : afterIndex(c, i)

\* The lifecycle under the scheduling Go gives a wait: a select whose case
\* stays ready is taken (select chooses among its ready cases at random),
\* and a timer that was started fires.
LiveSpec ==
  /\ Spec
  /\ \A w \in WaitIds : /\ WF_vars(wflClosing(w))
                        /\ WF_vars(wflTimerFire(w))
                        /\ WF_vars(wflTimer(w))

SpecStore == InitOpened /\ [][NextStore]_vars

\* A node configured with seed peers: opens that run the join protocol.
InitJoin == \E cfg \in Configs : InitCfg(cfg)

NextJoin ==
  \/ ListenerBind
  \/ \E o \in Openers : openCall(o)
  \/ \E o \in Openers : openListener(o)
  \/ \E o \in Openers : joinRegister(o)
  \/ \E o \in Openers : joinSnapshot(o)
  \/ \E o \in Openers : openLock(o)
  \/ \E o \in Openers, r \in {"ok", "mkdir all", "raft"} : openCrit(o, r)
  \/ \E w \in Openers : wflTimerFire(w)
  \/ \E w \in Openers : wflTimer(w)
  \/ \E w \in Openers : wflTick(w)
  \/ \E l \in {NoLeader, Self, Other} : RaftElect(l)

SpecJoin == InitJoin /\ [][NextJoin]_vars

\* Commands submitted at any moment of the store's life: before, during and
\* after its opens.
NextEarly ==
  \/ ListenerBind
  \/ \E o \in Openers : openCall(o)
  \/ \E o \in Openers : openListener(o)
  \/ \E o \in Openers : openLock(o)
  \/ \E o \in Openers, r \in {"ok", "mkdir all", "raft"} : openCrit(o, r)
  \/ \E w \in Openers : wflTimerFire(w)
  \/ \E w \in Openers : wflTimer(w)
  \/ \E w \in Openers : wflTick(w)
  \/ \E l \in {NoLeader, Self, Other} : RaftElect(l)
  \/ \E b \in Commands : apply(b)
  \/ FsmMutate
  \/ FsmIndex
  \/ FsmNotify

SpecEarly == Init /\ [][NextEarly]_vars

\* The Service: Open, which opens its store, and Close.
NextService ==
  \/ ListenerBind
  \/ \E rl \in BOOLEAN : ServiceOpen(rl)
  \/ openListener(SvcOpener)
  \/ openLock(SvcOpener)
  \/ \E r \in {"ok", "mkdir all", "raft"} : openCrit(SvcOpener, r)
  \/ \E w \in ExtWaiters, d \in Timeouts : wflCall(w, d)
  \/ \E w \in {SvcOpener} \cup ExtWaiters : wflTimerFire(w)
  \/ \E w \in {SvcOpener} \cup ExtWaiters : wflClosing(w)
  \/ \E w \in {SvcOpener} \cup ExtWaiters : wflTimer(w)
  \/ \E w \in {SvcOpener} \cup ExtWaiters : wflTick(w)
  \/ \E l \in {NoLeader, Self, Other} : RaftElect(l)
  \/ \E ok \in BOOLEAN : ServiceOpenListen(ok)
  \/ \E e \in {"", "use of closed network connection"} : ServiceClose(e)

SpecService == Init /\ [][NextService]_vars

\* Opens that join through seed peers which may stop answering, and close.
NextJoinClose ==
  \/ NextJoin
  \/ \E w \in Openers : wflClosing(w)
  \/ \E p \in {SeedPeers[k] : k \in DOMAIN SeedPeers} : PeerDown(p)
  \/ close

SpecJoinClose == InitJoin /\ [][NextJoinClose]_vars

\* The store that was constructed and then closed before any open was
\* called (the state one close leads to from Init): every open of this
\* specification is called after close has returned.
InitClosed ==
  /\ join = NoJoin
  /\ s = [ data |-> 1, closing |-> newStore.closing,
           dataChanged |-> newStore.dataChanged,
           opened |-> newStore.opened, raftState |-> newStore.raftState ]
  /\ heap = <<newStore.data>>
  /\ nchan = 2
  /\ chClosed = {newStore.closing}
  /\ mu = Free
  /\ panicked = ""
  /\ raftLeader = NoLeader
  /\ raftLog = <<>>
  /\ fsm = [pc |-> "idle", applied |-> 0]
  /\ after = [c \in AfterCallers |-> [st |-> "idle", i |-> 0, ch |-> 0, at |-> 0]]
  /\ snaps = [r \in Readers |-> [st |-> "idle", ref |-> 0, n |-> 0]]
  /\ closeN = 1
  /\ lnBound = FALSE
  /\ opn = [o \in Openers |->
             [pc |-> "idle", peers |-> <<>>, err |-> "", was |-> FALSE]]
  /\ wfl = [w \in WaitIds |->
             [st |-> "idle", timeout |-> 0, timer |-> "armed", res |-> "",
              seen |-> NoLeader, known |-> FALSE]]
  /\ appl = ""
  /\ acc = [c \in AccCallers |-> NoCall]
  /\ svc = NewService

NextClosed ==
  \/ ListenerBind
  \/ \E o \in Openers : openCall(o)
  \/ \E o \in Openers : openListener(o)
  \/ \E o \in Openers : openLock(o)
  \/ \E o \in Openers, r \in {"ok", "mkdir all", "raft"} : openCrit(o, r)
  \/ \E w \in Openers : wflTimerFire(w)
  \/ \E w \in Openers : wflClosing(w)
  \/ \E w \in Openers : wflTimer(w)
  \/ \E w \in Openers : wflTick(w)
  \/ \E l \in {NoLeader, Self, Other} : RaftElect(l)
  \/ \E r \in Readers : snapshot(r)
  \/ \E c \in AccCallers : leaderCall(c)

SpecClosed == InitClosed /\ [][NextClosed]_vars

\* Opens, with or without seed peers, while collaborators ask for the leader.
NextAcc ==
  \/ NextJoin
  \/ \E c \in AccCallers : leaderCall(c)
  \/ \E c \in AccCallers : isLeaderCall(c)

SpecAcc == InitJoin /\ [][NextAcc]_vars

\* ================================================================ claims
\* The Document after the first k-1 committed commands: its committed state
\* at Index k.
Committed(k) == [Index |-> k, Cmds |-> SubSeq(raftLog, 1, k - 1)]

\* C1: Index is 1 at construction and is one more than the number of commits
\* applied: whenever the lock is free (index() and snapshot() can run),
\* index() is N+1 after N commits and a snapshot holds exactly the N
\* mutations, in commit order.
IndexCountsCommits ==
  mu = Free =>
    /\ index = fsm.applied + 1
    /\ Clone(heap[s.data]) = Committed(fsm.applied + 1)

IndexCountsCommitsWitness ==
  /\ mu = Free
  /\ fsm.applied = 2
  /\ index = 3
  /\ Len(heap[s.data].Cmds) = 2

\* C2: a handle from afterIndex(i) with i < index() is signaled; one from
\* afterIndex(i) with i >= index() is not signaled before a commit after the
\* call has completed.
AfterIndexHandle ==
  \A c \in AfterCallers :
    after[c].st = "got" =>
      IF after[c].i < after[c].at
        THEN after[c].ch \in chClosed
        ELSE after[c].ch \in chClosed => fsm.applied + 1 > after[c].at

AfterIndexHandleWitness ==
  \E c, d \in AfterCallers :
    /\ after[c].st = "got" /\ after[c].i < after[c].at /\ after[c].ch \in chClosed
    /\ after[d].st = "got" /\ after[d].i >= after[d].at /\ after[d].ch \in chClosed
    /\ fsm.applied + 1 > after[d].at

\* C3: no lost wakeup: the handle of a caller of afterIndex(i), i the Index at
\* the call, becomes signaled in exactly the step that completes the first
\* commit after the call, and every completed commit installs a fresh,
\* unsignaled handle that no earlier caller holds.
NoLostWakeup ==
  [][ /\ \A c \in AfterCallers :
           (after[c].st = "got" /\ after[c].i = after[c].at) =>
             ( (after[c].ch \notin chClosed /\ after[c].ch \in chClosed')
               <=> (fsm.applied + 1 = after[c].at /\ fsm'.applied = fsm.applied + 1) )
      /\ fsm'.applied = fsm.applied + 1 =>
           /\ s'.dataChanged \notin chClosed'
           /\ \A c \in AfterCallers :
                after[c].st = "got" => after[c].ch # s'.dataChanged
    ]_vars

NoLostWakeupWitness ==
  \E c, d \in AfterCallers :
    /\ c # d
    /\ after[c].st = "got" /\ after[c].i = after[c].at
    /\ after[d].st = "got" /\ after[d].i = after[d].at
    /\ after[c].ch = after[d].ch
    /\ after[c].ch \in chClosed
    /\ fsm.applied = after[c].at
    /\ s.dataChanged \notin chClosed

\* C4: a value snapshot() returned is the Document's committed state at the
\* Index current when the call ran, at that Index only, and stays so whatever
\* is applied afterwards.
SnapshotIsCommitted ==
  \A r \in Readers :
    snaps[r].st = "got" =>
      /\ heap[snaps[r].ref] = Committed(snaps[r].n + 1)
      /\ Cardinality({k \in 1 .. (fsm.applied + 1) :
                        heap[snaps[r].ref] = Committed(k)}) = 1

SnapshotIsCommittedWitness ==
  \E q, r \in Readers :
    /\ snaps[q].st = "got" /\ snaps[r].st = "got"
    /\ snaps[q].n < snaps[r].n
    /\ snaps[r].n < fsm.applied
    /\ heap[snaps[q].ref] # heap[s.data]

\* C5 as claimed: close() is idempotent, no call of it crashes the process.
CloseIsIdempotent == panicked # "close of closed channel"

ZeroTimeoutWaitsForLeader ==
  /\ \A w \in WaitIds :
       (wfl[w].st = "done" /\ wfl[w].timeout = 0) =>
         \/ wfl[w].res = "ok" /\ wfl[w].seen # NoLeader
         \/ wfl[w].res = "closing" /\ s.closing \in chClosed
  /\ \A o \in Openers :
       (opn[o].pc = "done" /\ opn[o].err = "") =>
         /\ wfl[o].st = "done" /\ wfl[o].timeout = 0
         /\ wfl[o].res = "ok" /\ wfl[o].seen # NoLeader

ZeroTimeoutWaitsForLeaderWitness ==
  /\ \E o \in Openers :
       /\ opn[o].pc = "done" /\ opn[o].err = ""
       /\ wfl[o].timer = "drained"
  /\ \E w \in ExtWaiters :
       /\ wfl[w].st = "done" /\ wfl[w].timeout = 0
       /\ wfl[w].timer = "drained" /\ wfl[w].res = "ok"

JoinSucceedsViaLastPeer ==
  (join.peers # <<>> /\ join.up = {join.peers[Len(join.peers)]}) =>
    \A o \in Openers :
      /\ opn[o].err # "unreachable"
      /\ opn[o].pc \in {"lock", "crit", "wait"} =>
           opn[o].peers = raftPeers(join.nodes)

\* C11: with no Consensus Module attached (before open, during open's
\* listener wait or join, after a failed open) leader() returns the empty
\* value and isLeader() returns false, and neither call fails; with a module
\* attached and no leader known, leader() returns the empty value too.
NoModuleNoLeader ==
  /\ panicked # NilDeref
  /\ \A c \in AccCallers :
       acc[c].st = "got" =>
         /\ (acc[c].nil /\ acc[c].fn = "leader") => acc[c].ldr = NoLeader
         /\ (acc[c].nil /\ acc[c].fn = "isLeader") => acc[c].isl = FALSE
         /\ (acc[c].fn = "leader" /\ acc[c].rl = NoLeader) => acc[c].ldr = NoLeader
         /\ (acc[c].fn = "leader" /\ ~acc[c].nil) => acc[c].ldr = acc[c].rl
         /\ (acc[c].fn = "isLeader" /\ ~acc[c].nil) => acc[c].isl = (acc[c].rl = Self)

\* leader() answered on a store whose open failed in openRaft: opened is
\* set, no module is attached.
NoModuleNoLeaderWitness ==
  \E c \in AccCallers, o \in Openers :
    /\ acc[c].st = "got"
    /\ acc[c].fn = "leader"
    /\ acc[c].nil
    /\ opn[o].pc = "done"
    /\ opn[o].err = "raft"
    /\ s.raftState = NilRaft

CloseReleasesModule ==
  [][(closeN' = closeN + 1 /\ Running' /\ s.raftState # NilRaft) =>
       s'.raftState = NilRaft]_vars

\* C16: open's critical section is atomic: outside it the opened flag is set
\* if and only if a module is attached, and ErrStoreOpen is returned only
\* when an earlier open attached a module.
OpenIsAtomic ==
  /\ mu # "open" => (s.opened <=> s.raftState # NilRaft)
  /\ \A o \in Openers :
       opn[o].err = "ErrStoreOpen" => s.raftState # NilRaft

\* C14: no new open is possible after close: an open called after close has
\* returned fails, and neither sets the opened flag nor attaches a module
\* (every open of SpecClosed is such an open).
NoOpenAfterClose ==
  /\ ~s.opened
  /\ s.raftState = NilRaft
  /\ \A o \in Openers : opn[o].pc = "done" => opn[o].err # ""

\* C15: the join is responsive to shutdown: an open inside the join protocol
\* (registration, or the retry until a snapshot) when closing has fired is
\* not blocked: it has a step to take, whether or not a seed peer answers.
JoinReturnsOnClose ==
  \A o \in Openers :
    (Running /\ opn[o].pc \in {"register", "snapshot"} /\ s.closing \in chClosed)
      => ENABLED (joinRegister(o) \/ joinSnapshot(o))

\* The consensus-transport addresses of the cluster's members, in order.
MemberTCPHosts == [k \in 1 .. Len(join.nodes) |-> join.nodes[k].TCPHost]

\* C17: with seed peers configured, an open is past the join (this node is
\* registered, joinCluster returned the members' addresses) before it opens
\* the module, and the module is opened with exactly that list; while every
\* open that was called failed in the join, the opened flag is unset and no
\* module is attached; without seed peers there is no join and the module is
\* opened with the empty list.
JoinBeforeModule ==
  /\ s.raftState # NilRaft =>
       s.raftState.peers = IF join.peers = <<>> THEN <<>> ELSE MemberTCPHosts
  /\ \A o \in Openers :
       /\ (opn[o].pc \in {"crit", "wait"} /\ join.peers # <<>>) =>
            /\ \E k \in DOMAIN join.nodes : join.nodes[k] = SelfNode
            /\ opn[o].peers = MemberTCPHosts
       /\ join.peers = <<>> =>
            /\ opn[o].pc \notin {"register", "snapshot"}
            /\ opn[o].peers = <<>>
            /\ join.nodes = <<>>
       /\ opn[o].err = "unreachable" => opn[o].peers = <<>>
  /\ (/\ \E o \in Openers : opn[o].pc # "idle"
      /\ \A o \in Openers : opn[o].pc = "idle" \/ opn[o].err = "unreachable")
       => (~s.opened /\ s.raftState = NilRaft)

\* A module opened with the three addresses the join returned.
JoinBeforeModuleWitness ==
  /\ join.peers # <<>>
  /\ s.raftState # NilRaft
  /\ Len(s.raftState.peers) = 3
  /\ s.raftState.peers = MemberTCPHosts
  /\ \E o \in Openers : opn[o].err = "unreachable"

\* C18: whenever a handle returned by afterIndex(i) is signaled, index() is
\* greater than i, for every i, those above the Index of the call included.
SignaledHandleMeansNewer ==
  \A c \in AfterCallers :
    (after[c].st = "got" /\ after[c].ch \in chClosed) => index > after[c].i

\* C18 as amended: a signaled handle of afterIndex(i) means index() > i when
\* i was at most the Index of the call; for a larger i it means only that
\* Index has passed its value at the call.
SignaledHandleMeansUpdate ==
  \A c \in AfterCallers :
    (after[c].st = "got" /\ after[c].ch \in chClosed) =>
      /\ after[c].i <= after[c].at => index > after[c].i
      /\ after[c].i > after[c].at => index > after[c].at

\* One caller at the Index of its call, released by the next commit; one
\* caller ahead of the Index, released by the same commit with index() = i.
SignaledHandleMeansUpdateWitness ==
  \E c, d \in AfterCallers :
    /\ after[c].st = "got" /\ after[c].i = after[c].at
    /\ after[c].ch \in chClosed /\ index = after[c].i + 1
    /\ after[d].st = "got" /\ after[d].i > after[d].at
    /\ after[d].ch \in chClosed /\ index = after[d].i

\* C19: apply never crashes the process: in every reachable state, before an
\* open attached a module, after a failed open and during an open included,
\* it submits the command or returns an error.
ApplyNeverCrashes == panicked # NilDeref

\* C20: Service.Close shuts the Store down: when Close has returned without
\* error on a Service whose Open succeeded, the store's closing signal has
\* been fired.
ServiceCloseClosesStore ==
  (svc.pc = "open" /\ svc.cl = "done" /\ svc.clerr = "") => s.closing \in chClosed

====
